---- MODULE Spec2Model ----
(***************************************************************************)
(* Model of the two n-gram pipelines of keyboard_suggestion:                *)
(*   amazigh/pipeline.py  clean_text, tokenize, build_ngrams, the Laplace   *)
(*                        estimator (Policy A) and process_corpus;          *)
(*   ngrams_tp.py         simple_tokenize, read_sentences_file, the         *)
(*                        relative-frequency estimator (Policy B),          *)
(*                        process_language and the __main__ loop.           *)
(* A text is a sequence of characters, a character a one-element string    *)
(* (code points outside ASCII are written "U+XXXX").  A token is a text, a  *)
(* gram a sequence of tokens, a count table a function from grams to        *)
(* counts.  A quotient of two integers is kept exact as <<num, den>>.       *)
(***************************************************************************)
EXTENDS Integers, Sequences, FiniteSets, TLC

\* ---------------------------------------------------------------- bounds
MaxFrags == 3     \* fragments in a text handed to a text function
MaxLen == 6       \* tokens in a token sequence, words in the corpus of pipeline.py
MaxWords == 5     \* words in the three sentence files of ngrams_tp.py together
MaxKeys == 2      \* keys of a count table handed directly to an estimator
MaxCount == 2     \* largest count in such a table

\* ------------------------------------------------------------ characters
SP == " "
TAB == "\t"
NL == "\n"

\* str.isspace() and the regex class \s
Whitespace == {SP, TAB, NL}

AsciiLower == {"a", "b", "c", "h", "p", "s", "t"}
AsciiUpper == {"A", "B"}
Digits == {"0", "1", "2"}
\* U+0627 ARABIC LETTER ALEF, U+2D30 TIFINAGH LETTER YA, U+00E9 e-acute
ArabicBlock == {"U+0627"}
TifinaghBlock == {"U+2D30"}
OtherLetters == {"U+00E9"}
\* further code points: U+2019 right single quote, U+02BF modifier letter
\* left half ring; every other character of a text is punctuation

\* the regex class \w (str pattern): letters, digits and the underscore
\* (U+02BF is a modifier LETTER, hence a word character)
WordChars == AsciiLower \cup AsciiUpper \cup Digits \cup ArabicBlock
             \cup TifinaghBlock \cup OtherLetters \cup {"_", "U+02BF"}

\* the characters clean_text keeps: [0-9A-Za-z\u0600-\u06FF\u2D30-\u2D7F\u2019'\u02BF_\-\s]
AllowedChars == Digits \cup AsciiUpper \cup AsciiLower \cup ArabicBlock
                \cup TifinaghBlock \cup {"U+2019", "'", "U+02BF", "_", "-"}
                \cup Whitespace

\* str.lower(), one character
LowerChar(c) == CASE c = "A" -> "a" [] c = "B" -> "b" [] OTHER -> c

\* str.lower()
Lower(text) == [i \in 1..Len(text) |-> LowerChar(text[i])]

\* ------------------------------------------------------- sequence helpers
RECURSIVE Concat(_)
\* the concatenation of a sequence of sequences
Concat(ss) == IF ss = <<>> THEN <<>> ELSE Head(ss) \o Concat(Tail(ss))

RECURSIVE Join(_, _)
\* sep.join(parts)
Join(parts, sep) ==
    IF parts = <<>> THEN <<>>
    ELSE IF Len(parts) = 1 THEN parts[1]
    ELSE parts[1] \o sep \o Join(Tail(parts), sep)

\* text[i..j-1] equals lit at position i
StartsAt(text, i, lit) ==
    /\ i + Len(lit) - 1 <= Len(text)
    /\ \A k \in 1..Len(lit) : text[i + k - 1] = lit[k]

\* least position >= i where lit starts, 0 when there is none
FindFrom(text, i, lit) ==
    LET hits == {k \in i..Len(text) : StartsAt(text, k, lit)}
    IN  IF hits = {} THEN 0 ELSE CHOOSE k \in hits : \A m \in hits : k <= m

\* ------------------------------------------------------- regex matching
\* Each Match operator gives the position AFTER the leftmost-first match of
\* the pattern that starts at position i, 0 when the pattern does not match
\* there.

\* <[^>]+>
MatchTag(text, i) ==
    IF ~StartsAt(text, i, <<"<">>) THEN 0
    ELSE LET j == FindFrom(text, i + 1, <<">">>)
         IN  IF j = 0 \/ j = i + 1 THEN 0 ELSE j + 1

\* \{\{.*?\}\}  with re.DOTALL
MatchTemplate(text, i) ==
    IF ~StartsAt(text, i, <<"{", "{">>) THEN 0
    ELSE LET j == FindFrom(text, i + 2, <<"}", "}">>)
         IN  IF j = 0 THEN 0 ELSE j + 2

\* \[\[.*?\]\]  (the dot does not match a newline)
MatchInternalLink(text, i) ==
    IF ~StartsAt(text, i, <<"[", "[">>) THEN 0
    ELSE LET j == FindFrom(text, i + 2, <<"]", "]">>)
         IN  IF j = 0 THEN 0
             ELSE IF \E k \in (i + 2)..(j - 1) : text[k] = NL THEN 0
             ELSE j + 2

\* \[https?:\/\/[^\]]*\]
MatchExternalLink(text, i) ==
    LET http == <<"[", "h", "t", "t", "p">>
        sep == <<":", "/", "/">>
        body == IF StartsAt(text, i, http \o <<"s">> \o sep) THEN i + 9
                ELSE IF StartsAt(text, i, http \o sep) THEN i + 8
                ELSE 0
    IN  IF body = 0 THEN 0
        ELSE LET j == FindFrom(text, body, <<"]">>)
             IN  IF j = 0 THEN 0 ELSE j + 1

\* [^0-9A-Za-z\u0600-\u06FF\u2D30-\u2D7F\u2019'\u02BF_\-\s]
MatchDisallowed(text, i) ==
    IF i <= Len(text) /\ text[i] \notin AllowedChars THEN i + 1 ELSE 0

RECURSIVE SpaceRunEnd(_, _)
\* the position after the maximal whitespace run that starts at i
SpaceRunEnd(text, i) ==
    IF i <= Len(text) /\ text[i] \in Whitespace THEN SpaceRunEnd(text, i + 1) ELSE i

\* \s+
MatchSpaces(text, i) ==
    IF i <= Len(text) /\ text[i] \in Whitespace THEN SpaceRunEnd(text, i) ELSE 0

\* the position after the match of the named pattern at i, 0 when none
Match(pattern, text, i) ==
    CASE pattern = "tag" -> MatchTag(text, i)
      [] pattern = "template" -> MatchTemplate(text, i)
      [] pattern = "internal link" -> MatchInternalLink(text, i)
      [] pattern = "external link" -> MatchExternalLink(text, i)
      [] pattern = "disallowed" -> MatchDisallowed(text, i)
      [] pattern = "spaces" -> MatchSpaces(text, i)

RECURSIVE ReSub(_, _, _)
\* re.sub(pattern, " ", text) from position i on: every non-overlapping match,
\* leftmost first, becomes one space
ReSub(pattern, text, i) ==
    IF i > Len(text) THEN <<>>
    ELSE LET e == Match(pattern, text, i)
         IN  IF e = 0 THEN <<text[i]>> \o ReSub(pattern, text, i + 1)
             ELSE <<SP>> \o ReSub(pattern, text, e)

RECURSIVE LStrip(_)
LStrip(text) ==
    IF text # <<>> /\ Head(text) \in Whitespace THEN LStrip(Tail(text)) ELSE text

RECURSIVE RStrip(_)
RStrip(text) ==
    IF text # <<>> /\ text[Len(text)] \in Whitespace
    THEN RStrip(SubSeq(text, 1, Len(text) - 1)) ELSE text

\* str.strip()
Strip(text) == RStrip(LStrip(text))

\* clean_text with the whitespace collapse BEFORE the removal of the disallowed
\* characters (lines 13 and 14 swapped)
clean_text_collapse_first(text) ==
    LET t1 == ReSub("tag", text, 1)
        t2 == ReSub("template", t1, 1)
        t3 == ReSub("internal link", t2, 1)
        t4 == ReSub("external link", t3, 1)
        t5 == ReSub("spaces", t4, 1)
    IN  Strip(ReSub("disallowed", t5, 1))

\* ------------------------------------------------------------ pipeline.py
clean_text(text) ==
    LET t1 == ReSub("tag", text, 1)
        t2 == ReSub("template", t1, 1)
        t3 == ReSub("internal link", t2, 1)
        t4 == ReSub("external link", t3, 1)
        t5 == ReSub("disallowed", t4, 1)
    IN  Strip(ReSub("spaces", t5, 1))

RECURSIVE Split(_)
\* str.split(): the maximal runs of non-whitespace characters
Split(text) ==
    LET t == LStrip(text)
        ends == {k \in 1..Len(t) : t[k] \in Whitespace}
        e == IF ends = {} THEN Len(t) + 1
             ELSE CHOOSE k \in ends : \A m \in ends : k <= m
    IN  IF t = <<>> THEN <<>>
        ELSE <<SubSeq(t, 1, e - 1)>> \o Split(SubSeq(t, e, Len(t)))

tokenize(text) == Split(Lower(text))

\* ---------------------------------------------------------- ngrams_tp.py
RECURSIVE WordRunEnd(_, _)
\* the position after the maximal run of word characters that starts at i
WordRunEnd(word, i) ==
    IF i <= Len(word) /\ word[i] \in WordChars THEN WordRunEnd(word, i + 1) ELSE i

RECURSIVE FindAllParts(_, _)
\* re.findall(r'\w+|[^\w\s]', word) from position i on: a maximal run of word
\* characters, or ONE character that is neither a word character nor a space
FindAllParts(word, i) ==
    IF i > Len(word) THEN <<>>
    ELSE IF word[i] \in WordChars
         THEN <<SubSeq(word, i, WordRunEnd(word, i) - 1)>>
              \o FindAllParts(word, WordRunEnd(word, i))
    ELSE IF word[i] \notin Whitespace
         THEN <<<<word[i]>>>> \o FindAllParts(word, i + 1)
    ELSE FindAllParts(word, i + 1)

simple_tokenize(text) ==
    LET words == Split(Lower(text))
        tokens == Concat([w \in 1..Len(words) |-> FindAllParts(words[w], 1)])
    IN  SelectSeq(tokens, LAMBDA t : Strip(t) # <<>>)

\* ------------------------------------------------------------- n-grams
\* build_ngrams with range(len(tokens) - n): the last window is lost
build_ngrams_off_by_one(tokens, n) ==
    [i \in 1..(Len(tokens) - n) |-> SubSeq(tokens, i, i + n - 1)]

\* build_ngrams with range(0, len(tokens) - n + 1, n): windows that do not overlap
build_ngrams_stride(tokens, n) ==
    [j \in 1..((Len(tokens) - n + 1 + (n - 1)) \div n) |->
        SubSeq(tokens, (j - 1) * n + 1, j * n)]

\* pipeline.py: for i in range(len(tokens) - n + 1): tokens[i:i + n]
build_ngrams(tokens, n) ==
    [i \in 1..(Len(tokens) - n + 1) |-> SubSeq(tokens, i, i + n - 1)]

\* nltk.util.ngrams(sequence, n) without padding (bigrams, trigrams are n = 2, 3):
\* the windows of n consecutive items, none when the sequence is shorter
ngrams(sequence, n) ==
    [i \in 1..(Len(sequence) - n + 1) |-> SubSeq(sequence, i, i + n - 1)]

\* ------------------------------------------------------------- counting
\* dict.get(key, 0)
Get(table, key) == IF key \in DOMAIN table THEN table[key] ELSE 0

RECURSIVE CounterUpdate_set(_, _)
\* Counter.update with counter[k] = 1 in place of counter[k] += 1
CounterUpdate_set(counter, items) ==
    IF items = <<>> THEN counter
    ELSE LET k == Head(items)
             next == [x \in DOMAIN counter \cup {k} |-> IF x = k THEN 1 ELSE counter[x]]
         IN  CounterUpdate_set(next, Tail(items))

RECURSIVE CounterUpdate(_, _)
\* Counter.update(iterable): one increment per element, in order
CounterUpdate(counter, items) ==
    IF items = <<>> THEN counter
    ELSE LET k == Head(items)
             next == [x \in DOMAIN counter \cup {k} |->
                         IF x = k THEN Get(counter, k) + 1 ELSE counter[x]]
         IN  CounterUpdate(next, Tail(items))

\* Counter(): no key
EmptyTable == [x \in {} |-> 0]

\* nltk.FreqDist(samples): a Counter of the samples
FreqDist(samples) == CounterUpdate(EmptyTable, samples)

RECURSIVE SumValues(_, _)
\* sum(table.values()) over the keys in keys
SumValues(table, keys) ==
    IF keys = {} THEN 0
    ELSE LET k == CHOOSE x \in keys : TRUE
         IN  table[k] + SumValues(table, keys \ {k})

\* ----------------------------------------------------------- estimators
\* a / b in floating point, kept as the exact quotient; b # 0
Quot(a, b) == <<a, b>>
\* the float 0.0
Zero == <<0, 1>>
\* q <= 1.0, which is -log(q) >= 0
AtMostOne(q) == q[1] <= q[2]
\* q > 0
Positive(q) == q[1] > 0 /\ q[2] > 0

\* ngram[:-1]
Prefix(ngram) == SubSeq(ngram, 1, Len(ngram) - 1)

\* calculate_probabilities without the vocabulary term: (count + 1) / prefix_count
calculate_probabilities_no_vocab(ngram_counts, lower_counts) ==
    LET prefix_count(g) == IF SubSeq(g, 1, Len(g) - 1) \in DOMAIN lower_counts
                           THEN lower_counts[SubSeq(g, 1, Len(g) - 1)] ELSE 0
    IN  IF \E g \in DOMAIN ngram_counts : prefix_count(g) = 0
        THEN [raised |-> "ZeroDivisionError", value |-> [x \in {} |-> 0]]
        ELSE [raised |-> "",
              value |-> [g \in DOMAIN ngram_counts |->
                            <<ngram_counts[g] + 1, prefix_count(g)>>]]

\* calculate_probabilities with 1 / vocab_size computed once before the loop
calculate_probabilities_hoisted(ngram_counts, lower_counts) ==
    LET vocab_size == Cardinality(DOMAIN lower_counts)
        prefix_count(g) == IF SubSeq(g, 1, Len(g) - 1) \in DOMAIN lower_counts
                           THEN lower_counts[SubSeq(g, 1, Len(g) - 1)] ELSE 0
    IN  IF vocab_size = 0
        THEN [raised |-> "ZeroDivisionError", value |-> [x \in {} |-> 0]]
        ELSE [raised |-> "",
              value |-> [g \in DOMAIN ngram_counts |->
                            <<ngram_counts[g] + 1, prefix_count(g) + vocab_size>>]]

\* pipeline.py, Policy A: the table of -log((count + 1) / (prefix_count + V)),
\* each score kept as the quotient it is the negated logarithm of.  A zero
\* denominator raises ZeroDivisionError out of the function.
calculate_probabilities(ngram_counts, lower_counts) ==
    LET vocab_size == Cardinality(DOMAIN lower_counts)
        prefix_count(g) == IF Prefix(g) \in DOMAIN lower_counts
                           THEN lower_counts[Prefix(g)] ELSE 0
    IN  IF \E g \in DOMAIN ngram_counts : prefix_count(g) + vocab_size = 0
        THEN [raised |-> "ZeroDivisionError", value |-> EmptyTable]
        ELSE [raised |-> "",
              value |-> [g \in DOMAIN ngram_counts |->
                            Quot(ngram_counts[g] + 1, prefix_count(g) + vocab_size)]]

\* Policy B without the prev_count > 0 test
tp_calculate_probabilities_unguarded(ngram_freq, prev_ngram_freq) ==
    [ngram \in DOMAIN ngram_freq |->
        IF Len(ngram) > 1
        THEN <<ngram_freq[ngram], Get(prev_ngram_freq, SubSeq(ngram, 1, Len(ngram) - 1))>>
        ELSE <<ngram_freq[ngram], SumValues(ngram_freq, DOMAIN ngram_freq)>>]

\* ngrams_tp.py, Policy B
tp_calculate_probabilities(ngram_freq, prev_ngram_freq) ==
    [ngram \in DOMAIN ngram_freq |->
        IF Len(ngram) > 1
        THEN LET prev_count == Get(prev_ngram_freq, Prefix(ngram))
             IN  IF prev_count > 0 THEN Quot(ngram_freq[ngram], prev_count) ELSE Zero
        ELSE LET total == SumValues(ngram_freq, DOMAIN ngram_freq)
             IN  IF total > 0 THEN Quot(ngram_freq[ngram], total) ELSE Zero]

\* ngram_to_string: ' '.join(ngram)
ngram_to_string(ngram) == Join(ngram, <<SP>>)

\* ------------------------------------------------------------ the files
\* pipeline.py: range(1, 6) and range(2, 6) end before MaxOrder + 1
MaxOrder == 5

\* pipeline.py line 95: process_corpus("kabyle_corpus.txt", "kabyle")
CorpusPath == "kabyle_corpus.txt"
OutputPrefix == "kabyle"

\* ngrams_tp.py FILE_PATHS, in insertion order
Langs == <<"arabic", "english", "french">>
FILE_PATHS == [lang \in {"arabic", "english", "french"} |->
    CASE lang = "arabic" -> "extracted/arabic/ara-dz_newscrawl-OSIAN_2018_10K/ara-dz_newscrawl-OSIAN_2018_10K-sentences.txt"
      [] lang = "english" -> "extracted/english/eng_news_2024_10K/eng_news_2024_10K-sentences.txt"
      [] lang = "french" -> "extracted/french/fra_news_2024_10K/fra_news_2024_10K-sentences.txt"]

\* what a path of the file system holds
Missing == [kind |-> "missing", data |-> <<>>]
Undecodable == [kind |-> "undecodable", data |-> <<>>]
TextFile(data) == [kind |-> "text", data |-> data]

\* os.path.exists
Exists(file) == file.kind # "missing"

\* ------------------------------------------------------- bounded inputs
SeqsUpTo(S, k) == UNION {[1..m -> S] : m \in 0..k}
SeqsOfLen(S, m) == [1..m -> S]

CleanFragments ==
    { <<"<">>, <<">">>, <<"{", "{">>, <<"}", "}">>, <<"[", "[">>, <<"]", "]">>,
      <<"[">>, <<"]">>, <<"h", "t", "t", "p", ":", "/", "/">>,
      <<"h", "t", "t", "p", "s", ":", "/", "/">>,
      <<"a">>, <<SP>>, <<NL>>, <<"!">> }

TokenFragments ==
    { <<"a">>, <<"A">>, <<"U+00E9">>, <<"_">>, <<"!">>, <<"?">>, <<"-">>, <<SP>>, <<TAB>> }

TextsOf(frags) == {Concat(fs_) : fs_ \in SeqsUpTo(frags, MaxFrags)}

\* the words of a corpus before lower-casing, and the tokens they become
RawWords == {<<"A">>, <<"b">>}
Vocabulary == {<<"a">>, <<"b">>}

\* count tables with at most MaxKeys keys among keys, counts in 1..MaxCount
TablesOver(keys) ==
    UNION {[ks -> 1..MaxCount] : ks \in {k \in SUBSET keys : Cardinality(k) <= MaxKeys}}

\* a raw corpus for pipeline.py: a tag, the words, a full stop
RawCorpus(ws) == <<"<", "p", ">">> \o Join(ws, <<SP>>) \o <<".", NL>>

\* a sentence file for ngrams_tp.py: a numbered line with the first half of
\* the words, a blank line, a line without a tab with the rest
SentenceFile(ws) ==
    LET k == (Len(ws) + 1) \div 2
        first == SubSeq(ws, 1, k)
        rest == SubSeq(ws, k + 1, Len(ws))
    IN  (IF first = <<>> THEN <<>> ELSE <<"1", TAB>> \o Join(first, <<SP>>) \o <<NL>>)
        \o <<SP, NL>>
        \o (IF rest = <<>> THEN <<>> ELSE Join(rest, <<SP>>) \o <<NL>>)

\* the files a path can hold whose text has m words
FilesOfLen(script, m) ==
    {TextFile(IF script = "pipeline.py" THEN RawCorpus(ws) ELSE SentenceFile(ws)) :
        ws \in SeqsOfLen(RawWords, m)}
    \cup (IF m = 0 THEN {Missing, Undecodable} ELSE {})

\* ------------------------------------------- ngrams_tp.py: reading a file
RECURSIVE SplitLines(_)
\* for line in f: the lines of the file, each up to and including its newline
SplitLines(data) ==
    LET e == FindFrom(data, 1, <<NL>>)
    IN  IF data = <<>> THEN <<>>
        ELSE IF e = 0 THEN <<data>>
        ELSE <<SubSeq(data, 1, e)>> \o SplitLines(SubSeq(data, e + 1, Len(data)))

\* the sentence of one line: line.strip(), then line.split('\t', 1)[1] when
\* there is a tab, the whole stripped line otherwise
SentenceOf(rawLine) ==
    LET line == Strip(rawLine)
        t == FindFrom(line, 1, <<TAB>>)
    IN  IF t = 0 THEN line ELSE SubSeq(line, t + 1, Len(line))

\* read_sentences_file: the sentences, what it printed, what it let escape
read_sentences_file(file_path, file) ==
    IF file.kind = "missing"
    THEN [raised |-> "", value |-> <<>>,
          printed |-> <<<<"Warning: File not found", file_path>>>>]
    ELSE IF file.kind = "undecodable"
    THEN [raised |-> "UnicodeDecodeError", value |-> <<>>, printed |-> <<>>]
    ELSE LET lines == SelectSeq(SplitLines(file.data), LAMBDA l : Strip(l) # <<>>)
         IN  [raised |-> "",
              value |-> [i \in 1..Len(lines) |-> SentenceOf(lines[i])],
              printed |-> <<>>]

process_text_to_tokens(sentences) ==
    Concat([i \in 1..Len(sentences) |-> simple_tokenize(sentences[i])])

\* ord(c)
CodePoint(c) ==
    CASE c = TAB -> 9 [] c = NL -> 10 [] c = SP -> 32 [] c = "!" -> 33
      [] c = "'" -> 39 [] c = "," -> 44 [] c = "-" -> 45 [] c = "." -> 46
      [] c = "/" -> 47 [] c = "0" -> 48 [] c = "1" -> 49 [] c = "2" -> 50
      [] c = ":" -> 58 [] c = "<" -> 60 [] c = ">" -> 62 [] c = "?" -> 63
      [] c = "A" -> 65 [] c = "B" -> 66 [] c = "[" -> 91 [] c = "]" -> 93
      [] c = "_" -> 95 [] c = "a" -> 97 [] c = "b" -> 98 [] c = "c" -> 99
      [] c = "h" -> 104 [] c = "p" -> 112 [] c = "s" -> 115 [] c = "t" -> 116
      [] c = "{" -> 123 [] c = "}" -> 125 [] c = "U+00E9" -> 233
      [] c = "U+02BF" -> 703 [] c = "U+0627" -> 1575 [] c = "U+2019" -> 8217
      [] c = "U+2D30" -> 11568

RECURSIVE StrLess(_, _)
\* s < t for two str values
StrLess(s, t) ==
    IF t = <<>> THEN FALSE
    ELSE IF s = <<>> THEN TRUE
    ELSE IF CodePoint(Head(s)) # CodePoint(Head(t))
         THEN CodePoint(Head(s)) < CodePoint(Head(t))
    ELSE StrLess(Tail(s), Tail(t))

RECURSIVE Sorted(_)
\* sorted(set)
Sorted(S) ==
    IF S = {} THEN <<>>
    ELSE LET m == CHOOSE x \in S : \A y \in S \ {x} : StrLess(x, y)
         IN  <<m>> \o Sorted(S \ {m})

\* set(tokens)
Range(sq) == {sq[i] : i \in 1..Len(sq)}

\* {ngram_to_string(k): v for k, v in table.items()}
Stringify(table) ==
    [str \in {ngram_to_string(g) : g \in DOMAIN table} |->
        table[CHOOSE g \in DOMAIN table : ngram_to_string(g) = str]]

\* {ngram_to_string((word,)): count for word, count in unigrams.items()}
StringifyWords(table) ==
    [str \in {ngram_to_string(<<w>>) : w \in DOMAIN table} |->
        table[CHOOSE w \in DOMAIN table : ngram_to_string(<<w>>) = str]]

\* ---------------------------------------------------------------- state
VARIABLES
    entry,    \* what is run: a script ("pipeline.py", "ngrams_tp.py") or one function
    arg,      \* the argument of the function that is run
    rets,     \* the values the function returned, call after call
    fs,       \* the input files: path -> Missing, Undecodable or TextFile
    pc,       \* where the script is
    iter,     \* ngrams_tp.py: the position of the __main__ loop in FILE_PATHS
    frame,    \* the local variables of process_corpus / process_language
    stdout,   \* the warnings and completion lines printed
    disk,     \* the output files written: path -> content
    raised    \* the exception that ended the script, "" when none

vars == <<entry, arg, rets, fs, pc, iter, frame, stdout, disk, raised>>

NoFrame == [fn |-> "none"]
NoFiles == [path \in {} |-> Missing]
NoDisk == [path \in {} |-> <<>>]

Grams(n) == SeqsOfLen(Vocabulary, n)

\* the arguments a function is run on
ArgsOf(e) ==
    CASE e = "clean_text" -> TextsOf(CleanFragments)
      [] e = "simple_tokenize" -> TextsOf(TokenFragments)
      [] e = "build_ngrams" ->
            [tokens : SeqsUpTo(Vocabulary, MaxLen), n : 1..MaxOrder]
      [] e = "calculate_probabilities" ->
            [ngram_counts : TablesOver(Grams(2)), lower_counts : TablesOver(Grams(1))]
      [] e = "tp_calculate_probabilities" ->
            [ngram_freq : TablesOver(Grams(1)) \cup TablesOver(Grams(2)),
             prev_ngram_freq : TablesOver(Grams(1))]

Functions == {"clean_text", "simple_tokenize", "build_ngrams",
              "calculate_probabilities", "tp_calculate_probabilities"}

InitFunction ==
    /\ entry \in Functions
    /\ arg \in ArgsOf(entry)
    /\ fs = NoFiles
    /\ pc = "call"
    /\ iter = 0

\* python pipeline.py: the corpus file is absent, undecodable, or a raw
\* corpus of at most MaxLen words
InitPipeline ==
    /\ entry = "pipeline.py"
    /\ arg = <<>>
    /\ \E m \in 0..MaxLen : \E f \in FilesOfLen("pipeline.py", m) :
          fs = [path \in {CorpusPath} |-> f]
    /\ pc = "open"
    /\ iter = 0

\* python ngrams_tp.py: three sentence files of at most MaxWords words together
InitNgramsTp ==
    /\ entry = "ngrams_tp.py"
    /\ arg = <<>>
    /\ \E m1 \in 0..MaxWords : \E m2 \in 0..(MaxWords - m1) :
       \E m3 \in 0..(MaxWords - m1 - m2) :
       \E f1 \in FilesOfLen("ngrams_tp.py", m1) :
       \E f2 \in FilesOfLen("ngrams_tp.py", m2) :
       \E f3 \in FilesOfLen("ngrams_tp.py", m3) :
          fs = [path \in {FILE_PATHS[Langs[i]] : i \in 1..3} |->
                   IF path = FILE_PATHS[Langs[1]] THEN f1
                   ELSE IF path = FILE_PATHS[Langs[2]] THEN f2 ELSE f3]
    /\ pc = "main"
    /\ iter = 1

Init ==
    /\ InitFunction \/ InitPipeline \/ InitNgramsTp
    /\ rets = <<>>
    /\ frame = NoFrame
    /\ stdout = <<>>
    /\ disk = NoDisk
    /\ raised = ""

\* ------------------------------------------------- one function, run alone
Last(sq) == sq[Len(sq)]

\* clean_text on the argument, then once more on its own result
CallCleanText ==
    /\ entry = "clean_text" /\ Len(rets) < 2
    /\ rets' = Append(rets, clean_text(IF rets = <<>> THEN arg ELSE Last(rets)))
    /\ UNCHANGED <<entry, arg, fs, pc, iter, frame, stdout, disk, raised>>

CallSimpleTokenize ==
    /\ entry = "simple_tokenize" /\ rets = <<>>
    /\ rets' = <<simple_tokenize(arg)>>
    /\ UNCHANGED <<entry, arg, fs, pc, iter, frame, stdout, disk, raised>>

CallBuildNgrams ==
    /\ entry = "build_ngrams" /\ rets = <<>>
    /\ rets' = <<build_ngrams(arg.tokens, arg.n)>>
    /\ UNCHANGED <<entry, arg, fs, pc, iter, frame, stdout, disk, raised>>

CallCalculateProbabilities ==
    /\ entry = "calculate_probabilities" /\ rets = <<>>
    /\ rets' = <<calculate_probabilities(arg.ngram_counts, arg.lower_counts)>>
    /\ UNCHANGED <<entry, arg, fs, pc, iter, frame, stdout, disk, raised>>

CallTpCalculateProbabilities ==
    /\ entry = "tp_calculate_probabilities" /\ rets = <<>>
    /\ rets' = <<tp_calculate_probabilities(arg.ngram_freq, arg.prev_ngram_freq)>>
    /\ UNCHANGED <<entry, arg, fs, pc, iter, frame, stdout, disk, raised>>

Orders == 1..MaxOrder

\* ------------------------------------------- pipeline.py: process_corpus
CountsPath(n) == <<OutputPrefix, ToString(n), "gram_counts.json">>
LogprobaPath(n) == <<OutputPrefix, ToString(n), "gram_logproba.json">>

\* lines 53-54: open and read; a missing or undecodable file raises out of
\* the script
ProcessCorpusOpen ==
    /\ entry = "pipeline.py" /\ pc = "open"
    /\ LET file == fs[CorpusPath]
       IN  IF file.kind = "missing"
           THEN /\ raised' = "FileNotFoundError" /\ pc' = "aborted"
                /\ UNCHANGED frame
           ELSE IF file.kind = "undecodable"
           THEN /\ raised' = "UnicodeDecodeError" /\ pc' = "aborted"
                /\ UNCHANGED frame
           ELSE /\ frame' = [fn |-> "process_corpus", text |-> file.data,
                             tokens |-> <<>>, order |-> 0,
                             counts |-> <<>>, probabilities |-> <<>>]
                /\ pc' = "clean"
                /\ UNCHANGED raised
    /\ UNCHANGED <<entry, arg, rets, fs, iter, stdout, disk>>

\* lines 56-62: clean, tokenize, print the total, one empty Counter per order
ProcessCorpusTokenize ==
    /\ entry = "pipeline.py" /\ pc = "clean"
    /\ LET text == clean_text(frame.text)
           tokens == tokenize(text)
       IN  /\ frame' = [frame EXCEPT !.text = text, !.tokens = tokens, !.order = 1,
                                     !.counts = [n \in Orders |-> EmptyTable]]
           /\ stdout' = Append(stdout, <<"Total tokens:", Len(tokens)>>)
    /\ pc' = "count"
    /\ UNCHANGED <<entry, arg, rets, fs, iter, disk, raised>>

\* lines 64-66, one iteration: counts[n].update(build_ngrams(tokens, n))
ProcessCorpusCount ==
    /\ entry = "pipeline.py" /\ pc = "count"
    /\ LET n == frame.order
           grams == build_ngrams(frame.tokens, n)
       IN  frame' = [frame EXCEPT !.counts[n] = CounterUpdate(@, grams),
                                  !.order = IF n < MaxOrder THEN n + 1 ELSE 2]
    /\ pc' = IF frame.order < MaxOrder THEN "count" ELSE "probabilities"
    /\ UNCHANGED <<entry, arg, rets, fs, iter, stdout, disk, raised>>

\* lines 71-75, one iteration: probabilities[n] from counts[n] and a copy of
\* counts[n - 1]
ProcessCorpusProbabilities ==
    /\ entry = "pipeline.py" /\ pc = "probabilities"
    /\ LET n == frame.order
           r == calculate_probabilities(frame.counts[n], frame.counts[n - 1])
       IN  IF r.raised # ""
           THEN /\ raised' = r.raised /\ pc' = "aborted"
                /\ UNCHANGED frame
           ELSE /\ frame' = [frame EXCEPT
                      !.probabilities = [m \in 2..n |-> IF m = n THEN r.value ELSE @[m]],
                      !.order = n + 1]
                /\ pc' = IF n < MaxOrder THEN "probabilities" ELSE "save"
                /\ UNCHANGED raised
    /\ UNCHANGED <<entry, arg, rets, fs, iter, stdout, disk>>

\* lines 78-90: the five count files, then the four log-probability files
ProcessCorpusSave ==
    /\ entry = "pipeline.py" /\ pc = "save"
    /\ disk' = [path \in {CountsPath(n) : n \in Orders}
                         \cup {LogprobaPath(n) : n \in 2..MaxOrder} |->
                  LET n == CHOOSE m \in Orders : path \in {CountsPath(m), LogprobaPath(m)}
                  IN  IF path = CountsPath(n) THEN Stringify(frame.counts[n])
                      ELSE Stringify(frame.probabilities[n])]
    /\ stdout' = Append(stdout, <<"Termine - fichiers generes">>)
    /\ pc' = "done"
    /\ UNCHANGED <<entry, arg, rets, fs, iter, frame, raised>>

\* --------------------------------------- ngrams_tp.py: the __main__ loop
OutputDir(lang) == <<"ngrams_tp", lang>>
GramPath(lang, n) == OutputDir(lang) \o <<ToString(n), "gram.json">>
ProbPath(lang, n) == OutputDir(lang) \o <<"prob_", ToString(n), "gram.json">>
AuxPath(lang, name) == OutputDir(lang) \o <<name, "", "">>

\* every output file process_language writes for one language
Artifacts(lang) ==
    {GramPath(lang, n) : n \in Orders} \cup {ProbPath(lang, n) : n \in 2..MaxOrder}
    \cup {AuxPath(lang, name) : name \in {"vocab.json", "vocab_rev.json", "freq.json"}}

\* lines 222-226, one iteration: call process_language when the file exists,
\* print the warning otherwise
MainLoop ==
    /\ entry = "ngrams_tp.py" /\ pc = "main" /\ iter <= Len(Langs)
    /\ LET lang == Langs[iter]
           file_path == FILE_PATHS[lang]
       IN  IF Exists(fs[file_path])
           THEN /\ frame' = [fn |-> "process_language", lang |-> lang,
                             file_path |-> file_path]
                /\ pc' = "read"
                /\ UNCHANGED <<iter, stdout>>
           ELSE /\ stdout' = Append(stdout, <<"Warning: File not found", file_path>>)
                /\ iter' = iter + 1
                /\ UNCHANGED <<pc, frame>>
    /\ UNCHANGED <<entry, arg, rets, fs, disk, raised>>

\* line 228
MainComplete ==
    /\ entry = "ngrams_tp.py" /\ pc = "main" /\ iter = Len(Langs) + 1
    /\ stdout' = Append(stdout, <<"All processing complete!">>)
    /\ pc' = "done"
    /\ UNCHANGED <<entry, arg, rets, fs, iter, frame, disk, raised>>

\* process_language lines 104-125: read the sentences (a decode error is not
\* caught anywhere and ends the script), return when there are none, else
\* tokenize, build the vocabulary and make the output directory
ProcessLanguageRead ==
    /\ entry = "ngrams_tp.py" /\ pc = "read"
    /\ LET r == read_sentences_file(frame.file_path, fs[frame.file_path])
           tokens == process_text_to_tokens(r.value)
           vocab == Sorted(Range(tokens))
       IN  IF r.raised # ""
           THEN /\ raised' = r.raised /\ pc' = "aborted"
                /\ UNCHANGED <<iter, frame, stdout>>
           ELSE IF r.value = <<>>
           THEN /\ stdout' = stdout \o r.printed
                               \o <<<<"No sentences found for", frame.lang>>>>
                /\ frame' = NoFrame
                /\ iter' = iter + 1 /\ pc' = "main"
                /\ UNCHANGED raised
           ELSE /\ frame' = [fn |-> "process_language", lang |-> frame.lang,
                             file_path |-> frame.file_path,
                             sentences |-> r.value, tokens |-> tokens,
                             vocab |-> vocab,
                             vocab_dict |-> [w \in Range(vocab) |->
                                 (CHOOSE i \in 1..Len(vocab) : vocab[i] = w) - 1],
                             vocab_rev |-> [i \in 0..(Len(vocab) - 1) |-> vocab[i + 1]],
                             unigrams |-> EmptyTable, bigram_freq |-> EmptyTable,
                             trigram_freq |-> EmptyTable,
                             quadrigram_freq |-> EmptyTable,
                             pentagram_freq |-> EmptyTable,
                             ngram_freqs |-> <<>>, ngram_probs |-> <<>>]
                /\ stdout' = stdout \o r.printed
                /\ pc' = "generate"
                /\ UNCHANGED <<iter, raised>>
    /\ UNCHANGED <<entry, arg, rets, fs, disk>>

\* lines 128-177: the five frequency tables, each a FreqDist of its own over
\* the windows of the same token list, and the probabilities of each order
\* (order 1 over the total, order 2 in place over the unigram counts, orders
\* 3..5 by calculate_probabilities over the table one order below)
ProcessLanguageGenerate ==
    /\ entry = "ngrams_tp.py" /\ pc = "generate"
    /\ LET tokens == frame.tokens
           unigrams == FreqDist(tokens)
           total_unigrams == SumValues(unigrams, DOMAIN unigrams)
           unigram_probs == [w \in DOMAIN unigrams |->
               IF total_unigrams > 0 THEN Quot(unigrams[w], total_unigrams) ELSE Zero]
           bigram_freq == FreqDist(ngrams(tokens, 2))
           bigram_probs == [bigram \in DOMAIN bigram_freq |->
               LET w1_count == Get(unigrams, bigram[1])
               IN  IF w1_count > 0 THEN Quot(bigram_freq[bigram], w1_count) ELSE Zero]
           trigram_freq == FreqDist(ngrams(tokens, 3))
           quadrigram_freq == FreqDist(ngrams(tokens, 4))
           pentagram_freq == FreqDist(ngrams(tokens, 5))
       IN  frame' = [frame EXCEPT
               !.unigrams = unigrams,
               !.bigram_freq = bigram_freq,
               !.trigram_freq = trigram_freq,
               !.quadrigram_freq = quadrigram_freq,
               !.pentagram_freq = pentagram_freq,
               !.ngram_freqs = <<StringifyWords(unigrams), Stringify(bigram_freq),
                                 Stringify(trigram_freq), Stringify(quadrigram_freq),
                                 Stringify(pentagram_freq)>>,
               !.ngram_probs = <<StringifyWords(unigram_probs), Stringify(bigram_probs),
                   Stringify(tp_calculate_probabilities(trigram_freq, bigram_freq)),
                   Stringify(tp_calculate_probabilities(quadrigram_freq, trigram_freq)),
                   Stringify(tp_calculate_probabilities(pentagram_freq, quadrigram_freq))>>]
    /\ pc' = "save"
    /\ UNCHANGED <<entry, arg, rets, fs, iter, stdout, disk, raised>>

\* freq.json, lines 200-208
FreqSummary(fr) ==
    [unigrams |-> Cardinality(DOMAIN fr.unigrams),
     bigrams |-> Cardinality(DOMAIN fr.bigram_freq),
     trigrams |-> Cardinality(DOMAIN fr.trigram_freq),
     quadrigrams |-> Cardinality(DOMAIN fr.quadrigram_freq),
     pentagrams |-> Cardinality(DOMAIN fr.pentagram_freq),
     total_tokens |-> Len(fr.tokens),
     vocabulary_size |-> Len(fr.vocab)]

\* lines 181-218: the frequency files 1..5, the probability files 2..5, the
\* vocabulary files and the summary; then process_language returns
ProcessLanguageSave ==
    /\ entry = "ngrams_tp.py" /\ pc = "save"
    /\ LET lang == frame.lang
           written == [path \in Artifacts(lang) |->
               IF \E n \in Orders : path = GramPath(lang, n)
               THEN frame.ngram_freqs[CHOOSE n \in Orders : path = GramPath(lang, n)]
               ELSE IF \E n \in 2..MaxOrder : path = ProbPath(lang, n)
               THEN frame.ngram_probs[CHOOSE n \in 2..MaxOrder : path = ProbPath(lang, n)]
               ELSE IF path = AuxPath(lang, "vocab.json") THEN frame.vocab_dict
               ELSE IF path = AuxPath(lang, "vocab_rev.json") THEN frame.vocab_rev
               ELSE FreqSummary(frame)]
       IN  /\ disk' = [path \in DOMAIN disk \cup Artifacts(lang) |->
                          IF path \in Artifacts(lang) THEN written[path] ELSE disk[path]]
           /\ stdout' = Append(stdout, <<"Completed processing", lang>>)
    /\ frame' = NoFrame
    /\ iter' = iter + 1 /\ pc' = "main"
    /\ UNCHANGED <<entry, arg, rets, fs, raised>>

\* ------------------------------------------------------ the specification
Next ==
    \/ CallCleanText
    \/ CallSimpleTokenize
    \/ CallBuildNgrams
    \/ CallCalculateProbabilities
    \/ CallTpCalculateProbabilities
    \/ ProcessCorpusOpen
    \/ ProcessCorpusTokenize
    \/ ProcessCorpusCount
    \/ ProcessCorpusProbabilities
    \/ ProcessCorpusSave
    \/ MainLoop
    \/ MainComplete
    \/ ProcessLanguageRead
    \/ ProcessLanguageGenerate
    \/ ProcessLanguageSave

Spec == Init /\ [][Next]_vars

\* =================================================================== claims

\* C1: build_ngrams(T, n) returns exactly max(0, L - n + 1) grams, the i-th
\* being (T[i], ..., T[i+n-1]), in order of occurrence and with duplicates
\* kept; for n > L the result is empty.
C1_BuildNgrams ==
    (entry = "build_ngrams" /\ rets # <<>>) =>
        LET T == arg.tokens
            n == arg.n
            L == Len(arg.tokens)
            r == rets[1]
        IN  /\ Len(r) = IF L - n + 1 > 0 THEN L - n + 1 ELSE 0
            /\ \A i \in 1..Len(r) :
                  /\ Len(r[i]) = n
                  /\ \A k \in 1..n : r[i][k] = T[i + k - 1]
            /\ (n > L => r = <<>>)

\* a result in which one gram occurs at two positions
C1_Witness ==
    /\ entry = "build_ngrams" /\ rets # <<>>
    /\ \E i, j \in 1..Len(rets[1]) : i < j /\ rets[1][i] = rets[1][j]

\* C2 as stated: for ANY order-(n-1) table handed to the Policy A estimator,
\* every prob(g) satisfies 0 < prob(g) <= 1 (score >= 0), without error.
C2_Original ==
    (entry = "calculate_probabilities" /\ rets # <<>>) =>
        /\ rets[1].raised = ""
        /\ \A g \in DOMAIN rets[1].value :
              Positive(rets[1].value[g]) /\ AtMostOne(rets[1].value[g])

\* C2 amended: prob(g) = (count_n(g) + 1) / (count_{n-1}(prefix) + V) is > 0 for
\* any NON-EMPTY order-(n-1) table (an empty one with a non-empty order-n table
\* raises ZeroDivisionError); prob(g) <= 1, i.e. score(g) >= 0, holds for the
\* tables process_corpus builds from one token sequence.
C2_Amended ==
    /\ (entry = "calculate_probabilities" /\ rets # <<>>) =>
          LET hi == arg.ngram_counts
              lo == arg.lower_counts
              V == Cardinality(DOMAIN lo)
              r == rets[1]
          IN  IF V = 0
              THEN (r.raised = "ZeroDivisionError") <=> (DOMAIN hi # {})
              ELSE /\ r.raised = ""
                   /\ DOMAIN r.value = DOMAIN hi
                   /\ \A g \in DOMAIN hi :
                         /\ r.value[g] = <<hi[g] + 1,
                               (IF <<g[1]>> \in DOMAIN lo THEN lo[<<g[1]>>] ELSE 0) + V>>
                         /\ r.value[g][1] > 0 /\ r.value[g][2] > 0
    /\ (entry = "pipeline.py" /\ pc \in {"probabilities", "save", "done"}) =>
          \A n \in DOMAIN frame.probabilities :
             /\ DOMAIN frame.probabilities[n] = DOMAIN frame.counts[n]
             /\ \A g \in DOMAIN frame.probabilities[n] :
                   LET q == frame.probabilities[n][g]
                       lo == frame.counts[n - 1]
                       p == SubSeq(g, 1, n - 1)
                   IN  /\ q[1] = frame.counts[n][g] + 1
                       /\ q[2] = (IF p \in DOMAIN lo THEN lo[p] ELSE 0)
                                   + Cardinality(DOMAIN lo)
                       /\ 0 < q[1] /\ q[1] <= q[2]

\* the estimator was called with a gram whose prefix the lower table lacks
C2_Witness ==
    /\ entry = "calculate_probabilities" /\ rets # <<>>
    /\ rets[1].raised = ""
    /\ \E g \in DOMAIN arg.ngram_counts : <<g[1]>> \notin DOMAIN arg.lower_counts

\* C3: every probability the Policy B pipeline produces lies in [0, 1]: order 1
\* is count / total, order n >= 2 is count_n(g) / count_{n-1}(prefix(g)) <= 1;
\* and the estimator gives exactly 0.0, no error, when the prefix count is 0.
C3_PolicyB ==
    /\ (entry = "ngrams_tp.py" /\ pc = "save") =>
          LET T == frame.tokens
              tables == <<frame.unigrams, frame.bigram_freq, frame.trigram_freq,
                          frame.quadrigram_freq, frame.pentagram_freq>>
          IN  /\ \A w \in DOMAIN frame.unigrams :
                    frame.ngram_probs[1][w] = <<frame.unigrams[w], Len(T)>>
              /\ \A g \in DOMAIN frame.bigram_freq :
                    frame.ngram_probs[2][g[1] \o <<SP>> \o g[2]]
                       = <<frame.bigram_freq[g], frame.unigrams[g[1]]>>
              /\ \A n \in 3..MaxOrder : \A g \in DOMAIN tables[n] :
                    frame.ngram_probs[n][Join(g, <<SP>>)]
                       = <<tables[n][g], tables[n - 1][SubSeq(g, 1, n - 1)]>>
              /\ \A n \in Orders : \A key \in DOMAIN frame.ngram_probs[n] :
                    LET q == frame.ngram_probs[n][key]
                    IN  q[2] > 0 /\ 0 <= q[1] /\ q[1] <= q[2]
    /\ (entry = "tp_calculate_probabilities" /\ rets # <<>>) =>
          \A g \in DOMAIN arg.ngram_freq :
             (Len(g) > 1 /\ (SubSeq(g, 1, Len(g) - 1) \notin DOMAIN arg.prev_ngram_freq))
                => rets[1][g] = <<0, 1>>

\* a language whose trigram table has a gram of probability 1/2
C3_Witness ==
    /\ entry = "ngrams_tp.py" /\ pc = "save"
    /\ \E key \in DOMAIN frame.ngram_probs[3] : frame.ngram_probs[3][key] = <<1, 2>>

\* C4 as stated: one of the corpus files is missing; the run does not abort,
\* the missing corpus gets one warning and no output file, every other corpus
\* whose file exists gets its full set of output files.
C4_MissingFileClaim ==
    (entry = "ngrams_tp.py"
       /\ \E i \in 1..Len(Langs) : fs[FILE_PATHS[Langs[i]]].kind = "missing") =>
        /\ raised = ""
        /\ pc = "done" =>
              \A i \in 1..Len(Langs) :
                 LET lang == Langs[i]
                     path == FILE_PATHS[lang]
                 IN  IF fs[path].kind = "missing"
                     THEN /\ Cardinality({k \in 1..Len(stdout) :
                                 stdout[k] = <<"Warning: File not found", path>>}) = 1
                          /\ Artifacts(lang) \cap DOMAIN disk = {}
                     ELSE Artifacts(lang) \subseteq DOMAIN disk

\* C5 as stated: a decode error in one input file never aborts the run; the
\* corpora after the undecodable one are still read, processed and written.
C5_DecodeErrorClaim ==
    entry = "ngrams_tp.py" =>
        /\ pc # "aborted"
        /\ pc = "done" =>
              \A i, j \in 1..Len(Langs) :
                 ( /\ i < j
                   /\ fs[FILE_PATHS[Langs[i]]].kind = "undecodable"
                   /\ fs[FILE_PATHS[Langs[j]]].kind = "text"
                   /\ Strip(fs[FILE_PATHS[Langs[j]]].data) # <<>> )
                 => Artifacts(Langs[j]) \subseteq DOMAIN disk

\* C6 as stated: simple_tokenize makes one token of every maximal run of word
\* characters and of every maximal run of non-word, non-space characters (a run
\* of k punctuation characters is ONE token of length k); no token is empty or
\* blank; the tokens concatenate to the lower-cased text without its spaces.
C6_MaximalRuns ==
    (entry = "simple_tokenize" /\ rets # <<>>) =>
        LET t == Lower(arg)
            r == rets[1]
            IsPunct(c) == c \notin WordChars /\ c \notin Whitespace
            PunctRuns == {pq \in (1..Len(t)) \X (1..Len(t)) :
                            /\ pq[1] <= pq[2]
                            /\ \A k \in pq[1]..pq[2] : IsPunct(t[k])
                            /\ (pq[1] = 1 \/ ~IsPunct(t[pq[1] - 1]))
                            /\ (pq[2] = Len(t) \/ ~IsPunct(t[pq[2] + 1]))}
        IN  /\ \A i \in 1..Len(r) : r[i] # <<>> /\ \A k \in 1..Len(r[i]) : r[i][k] \notin Whitespace
            /\ Concat(r) = SelectSeq(t, LAMBDA c : c \notin Whitespace)
            /\ \A pq \in PunctRuns : \E i \in 1..Len(r) : r[i] = SubSeq(t, pq[1], pq[2])

\* C7: clean_text is idempotent, and its output holds only allowed characters,
\* none of '<', '{', '[', and no whitespace but single interior spaces.
C7_Idempotent ==
    entry = "clean_text" =>
        /\ Len(rets) >= 1 =>
              LET t == rets[1]
              IN  \A i \in 1..Len(t) :
                     /\ t[i] \in AllowedChars
                     /\ t[i] \notin {"<", "{", "["}
                     /\ t[i] \in Whitespace =>
                           /\ t[i] = SP /\ 1 < i /\ i < Len(t)
                           /\ t[i + 1] \notin Whitespace
        /\ Len(rets) = 2 => rets[2] = rets[1]

\* clean_text changed its argument, left a text with an interior space, and
\* was applied to that text again
C7_Witness ==
    /\ entry = "clean_text" /\ Len(rets) = 2
    /\ rets[1] # arg
    /\ \E i \in 1..Len(rets[1]) : rets[1][i] = SP

\* C8 as stated: with an empty token sequence the pipeline completes, the count
\* tables of all orders 1..5 and all probability tables are produced as empty
\* maps, and no probability computation divides by zero.
C8_Original ==
    /\ raised # "ZeroDivisionError"
    /\ (entry = "pipeline.py" /\ pc = "done" /\ frame.tokens = <<>>) =>
          /\ \A n \in Orders : disk[CountsPath(n)] = <<>>
          /\ \A n \in 2..MaxOrder : disk[LogprobaPath(n)] = <<>>
    /\ (entry = "ngrams_tp.py" /\ pc = "done") =>
          \A i \in 1..Len(Langs) :
             LET lang == Langs[i]
                 file == fs[FILE_PATHS[lang]]
             IN  (file.kind = "text" /\ Strip(file.data) = <<>>) =>
                    /\ \A n \in Orders :
                          GramPath(lang, n) \in DOMAIN disk /\ disk[GramPath(lang, n)] = <<>>
                    /\ \A n \in 2..MaxOrder :
                          ProbPath(lang, n) \in DOMAIN disk /\ disk[ProbPath(lang, n)] = <<>>

\* C8 amended: an empty token sequence makes nothing fail, no probability
\* computation divides by zero; process_corpus (Policy A) produces the count
\* tables 1..5 and the probability tables 2..5 as empty maps, while
\* process_language (Policy B) reports "No sentences found" and returns
\* before it builds or writes any table.
C8_Amended ==
    /\ raised # "ZeroDivisionError"
    /\ (entry = "pipeline.py" /\ pc \in {"probabilities", "save", "done"}
           /\ frame.tokens = <<>>) =>
          /\ \A n \in Orders : frame.counts[n] = <<>>
          /\ \A n \in DOMAIN frame.probabilities : frame.probabilities[n] = <<>>
          /\ pc = "done" =>
                /\ DOMAIN frame.probabilities = 2..MaxOrder
                /\ \A n \in Orders : disk[CountsPath(n)] = <<>>
                /\ \A n \in 2..MaxOrder : disk[LogprobaPath(n)] = <<>>
    /\ (entry = "ngrams_tp.py" /\ pc \in {"generate", "save"}) => frame.tokens # <<>>
    /\ entry = "ngrams_tp.py" =>
          \A i \in 1..Len(Langs) :
             LET lang == Langs[i]
                 file == fs[FILE_PATHS[lang]]
             IN  (file.kind = "text" /\ Strip(file.data) = <<>>) =>
                    /\ Artifacts(lang) \cap DOMAIN disk = {}
                    /\ (iter = i) => pc \in {"main", "read"}
                    /\ (iter > i) => \E k \in 1..Len(stdout) :
                                        stdout[k] = <<"No sentences found for", lang>>

\* ngrams_tp.py ran to its end over a sentence file that holds no token
C8_Witness ==
    /\ entry = "ngrams_tp.py" /\ pc = "done"
    /\ \E i \in 1..Len(Langs) :
          /\ fs[FILE_PATHS[Langs[i]]].kind = "text"
          /\ Strip(fs[FILE_PATHS[Langs[i]]].data) = <<>>

\* C9: the frequency table of order n maps each distinct gram to the number of
\* positions at which it occurs in the token sequence, so its values sum to
\* len(build_ngrams(T, n)); the tables share no state: while process_corpus has
\* built the tables below order n, the tables from n on are still empty, and
\* the tables below n already have their final value.
C9_FrequencyTables ==
    LET Occ(T, g) == Cardinality({i \in 1..(Len(T) - Len(g) + 1) :
                        \A k \in 1..Len(g) : T[i + k - 1] = g[k]})
        Windows(T, n) == {[k \in 1..n |-> T[i + k - 1]] : i \in 1..(Len(T) - n + 1)}
        Counts(tb, T, n) ==
            /\ DOMAIN tb = Windows(T, n)
            /\ \A g \in DOMAIN tb : tb[g] = Occ(T, g)
            /\ SumValues(tb, DOMAIN tb) = Len(build_ngrams(T, n))
    IN  /\ (entry = "pipeline.py" /\ pc \in {"count", "probabilities", "save", "done"}) =>
              \A n \in Orders :
                 IF pc = "count" /\ n >= frame.order
                 THEN frame.counts[n] = <<>>
                 ELSE Counts(frame.counts[n], frame.tokens, n)
        /\ (entry = "ngrams_tp.py" /\ pc = "save") =>
              /\ DOMAIN frame.unigrams = Range(frame.tokens)
              /\ \A w \in DOMAIN frame.unigrams :
                    frame.unigrams[w] = Occ(frame.tokens, <<w>>)
              /\ SumValues(frame.unigrams, DOMAIN frame.unigrams) = Len(frame.tokens)
              /\ Counts(frame.bigram_freq, frame.tokens, 2)
              /\ Counts(frame.trigram_freq, frame.tokens, 3)
              /\ Counts(frame.quadrigram_freq, frame.tokens, 4)
              /\ Counts(frame.pentagram_freq, frame.tokens, 5)

\* process_corpus is between two tables, the one just built holds a gram that
\* occurs twice
C9_Witness ==
    /\ entry = "pipeline.py" /\ pc = "count" /\ frame.order = 3
    /\ \E g \in DOMAIN frame.counts[2] : frame.counts[2][g] = 2

\* C10: on the tables a pipeline builds from one token sequence, for every n in
\* 2..5 and every gram g of table(n), the prefix g[0:n-1] is a key of table(n-1)
\* and count_{n-1}(prefix) >= count_n(g) >= 1; so the prefix-absent branch of
\* either estimator is never taken and Policy B never emits 0.0.
C10_PrefixCounts ==
    LET PrefixOK(hi, lo, n) ==
            \A g \in DOMAIN hi :
               LET p == [k \in 1..(n - 1) |-> g[k]]
               IN  p \in DOMAIN lo /\ lo[p] >= hi[g] /\ hi[g] >= 1
    IN  /\ (entry = "pipeline.py" /\ pc \in {"probabilities", "save", "done"}) =>
              \A n \in 2..MaxOrder : PrefixOK(frame.counts[n], frame.counts[n - 1], n)
        /\ (entry = "ngrams_tp.py" /\ pc = "save") =>
              /\ \A g \in DOMAIN frame.bigram_freq :
                    /\ g[1] \in DOMAIN frame.unigrams
                    /\ frame.unigrams[g[1]] >= frame.bigram_freq[g]
                    /\ frame.bigram_freq[g] >= 1
              /\ PrefixOK(frame.trigram_freq, frame.bigram_freq, 3)
              /\ PrefixOK(frame.quadrigram_freq, frame.trigram_freq, 4)
              /\ PrefixOK(frame.pentagram_freq, frame.quadrigram_freq, 5)
              /\ \A n \in Orders : \A key \in DOMAIN frame.ngram_probs[n] :
                    frame.ngram_probs[n][key][1] > 0

\* process_corpus has built all five tables and the 5-gram table is not empty
C10_Witness ==
    /\ entry = "pipeline.py" /\ pc = "probabilities"
    /\ frame.counts[MaxOrder] # <<>>
    /\ \E g \in DOMAIN frame.counts[3] : frame.counts[3][g] >= 2

====
